---- MODULE Spec2Model ----
(***************************************************************************)
(* Session supervisor of the WhatsApp gateway: the instance registry       *)
(* (ConnectionManager), the connection.update handlers (EventHandlers)     *)
(* and the timers and suspended async calls they leave behind.             *)
(*                                                                         *)
(* InstanceData objects live on a heap indexed by handle: every            *)
(* InstanceData is built together with exactly one socket, so one index    *)
(* names both.  The registry maps a connection id to the handle of the     *)
(* object it currently references.  Closures (timer callbacks, the code    *)
(* after an await) keep the object they captured, the registry may have    *)
(* moved on meanwhile.                                                     *)
(*                                                                         *)
(* The chat network client is an external library: a socket whose end()    *)
(* has not been invoked may emit any connection.update event at any time.  *)
(***************************************************************************)
EXTENDS Integers, Sequences, FiniteSets, Bags, TLC

\* ---------------------------------------------------------------- bounds
\* sockets ever opened
MaxHandles == 2
\* timers and suspended handlers pending at one time
MaxTasks == 2
\* supervisor calls suspended at one time
MaxCalls == 2

Users == {"u1", "u2"}
Ids == {"c1"}
Handles == 1 .. MaxHandles
Slots == 1 .. MaxCalls
NoInst == 0

\* ------------------------------------------------------ program constants
\* DisconnectReason of the network library, as the handlers compare it.
DisconnectReason ==
  [loggedOut |-> 401, badSession |-> 500, multideviceMismatch |-> 411,
   restartRequired |-> 515, timedOut |-> 408]
\* permanentDisconnectReasons of handleConnectionClose
permanentDisconnectReasons ==
  {DisconnectReason.loggedOut, DisconnectReason.badSession,
   DisconnectReason.multideviceMismatch, 401, 403, 428}
\* reconnectionAttempts < 5
MaxReconnectAttempts == 5
BaseDelay == 1000
DelayCap == 15000
ExpCap == 3
RestartDelay == 2000
PairingDelay == 1000

\* close causes the network is taken to report: every permanent cause,
\* restart required, one transient cause, and 0 for "no error attached".
Causes == permanentDisconnectReasons \cup {DisconnectReason.restartRequired, DisconnectReason.timedOut, 0}

Min(a, b) == IF a <= b THEN a ELSE b

RECURSIVE Pow2(_)
Pow2(n) == IF n = 0 THEN 1 ELSE 2 * Pow2(n - 1)

\* a backoff whose exponent starts at 1
DelayTimeFromOne(attempts) == Min(DelayCap, BaseDelay * Pow2(Min(attempts + 1, ExpCap)))

\* a backoff that doubles without limit
DelayTimeUncapped(attempts) == BaseDelay * Pow2(attempts)

\* Math.min(15000, 1000 * Math.pow(2, Math.min(attempts, 3)))
DelayTime(attempts) == Min(DelayCap, BaseDelay * Pow2(Min(attempts, ExpCap)))

VARIABLES
  instances,   \* registry: connection id -> handle of the InstanceData, or NoInst
  data,        \* heap of InstanceData objects, by handle
  sock,        \* per handle: "none" (not created), "open", "ended" (end() invoked)
  tasks,       \* bag of pending timers and suspended handler continuations
  calls,       \* suspended supervisor calls (create / restart / remove), by slot
  authDir,     \* credential directory of (user, id): "none", "dir", "creds"
  restore,     \* progress of restoreInstances at startup
  minted,      \* connection ids that have ever been in use
  last,        \* the operation or event handled by the latest step, and its outcome
  probe,       \* validateNumber calls followed probe by probe: the network's answers, each call's progress
  ledger,      \* the users' balances and the balance transactions under way
  now          \* the clock new Date() reads, in ticks since the process started

vars == <<instances, data, sock, tasks, calls, authDir, restore, minted, last, probe, ledger, now>>

\* ------------------------------------------------------------ data shapes
\* A heap cell no InstanceData occupies.
FreeObj ==
  [instanceId |-> "none", userId |-> "none", status |-> "free", qr |-> FALSE,
   pairingCode |-> FALSE, number |-> FALSE, reconnectionAttempts |-> 0,
   shouldBeConnected |-> FALSE, pairingMethod |-> "qr", phoneNumber |-> FALSE,
   profilePicture |-> FALSE, lastActivity |-> 0]

\* The InstanceData literal of createConnection / restartConnection /
\* restoreInstance: status 'connecting', reconnectionAttempts 0, no qr, no
\* pairingCode, no number.  qr, pairingCode, number, phoneNumber,
\* profilePicture record whether the optional field holds a value ('' and
\* undefined are no value).  lastActivity is the tick of the clock it was
\* last assigned at; a lastActivity never assigned reads as 0, the start.
NewInstanceData(id, u, m, phone, sbc) ==
  [instanceId |-> id, userId |-> u, status |-> "connecting", qr |-> FALSE,
   pairingCode |-> FALSE, number |-> FALSE, reconnectionAttempts |-> 0,
   shouldBeConnected |-> sbc, pairingMethod |-> m, phoneNumber |-> phone,
   profilePicture |-> FALSE, lastActivity |-> 0]

\* A socket: its state, and the connectionId and userId (auth path) it was
\* opened for.
NoSock == [st |-> "none", id |-> "none", user |-> "none"]
OpenSock(id, u) == [st |-> "open", id |-> id, user |-> u]

\* A pending callback.  kind: "reconnect" (the setTimeout stored in
\* instance.reconnectTimeout; ref says the field still references this
\* timer), "restart" (the setTimeout of the restartRequired / 515 branch),
\* "pairing" (the setTimeout that requests the pairing code), "qr" and
\* "open" (the rest of a handler suspended at its await).
Task(kind, inst, sk, delay, ref) ==
  [kind |-> kind, inst |-> inst, sock |-> sk, delay |-> delay, ref |-> ref]

IdleCall ==
  [op |-> "idle", pc |-> "idle", user |-> "none", id |-> "none", inst |-> NoInst,
   pairingMethod |-> "qr", phoneNumber |-> FALSE, shouldBeConnected |-> FALSE]

Label(op, u, id, h, arg, res) ==
  [op |-> op, user |-> u, id |-> id, h |-> h, arg |-> arg, res |-> res]
\* steps that are recorded by no label (timers, resumed handlers, calls
\* that are rejected or only read)
NoLabel == Label("none", "none", "none", NoInst, 0, "none")

\* --------------------------------------------------------------- helpers
\* this.instances.get(connectionId): the handle, NoInst when absent
Get(id) == instances[id]

FreeHandles == {h \in Handles : sock[h].st = "none"}
NewHandle == CHOOSE h \in FreeHandles : \A g \in FreeHandles : h <= g

FreeSlots == {k \in Slots : calls[k].op = "idle"}
NewSlot == CHOOSE k \in FreeSlots : \A j \in FreeSlots : k <= j

Fits(t) == BagCardinality(t) <= MaxTasks

\* the timer instance.reconnectTimeout references, while it is pending
RefTimers(t, h) == {x \in BagToSet(t) : x.kind = "reconnect" /\ x.inst = h /\ x.ref}

\* clearTimeout(instance.reconnectTimeout): the referenced timer, if still
\* pending, never fires; any other timer of the instance is untouched.
ClearReconnectTimeout(t, h) ==
  IF RefTimers(t, h) = {} THEN t
  ELSE t (-) SetToBag(RefTimers(t, h))

\* instance.reconnectTimeout = setTimeout(...): the field now references the
\* new timer; a timer it referenced before stays pending, unreferenced.
Unref(x) == [x EXCEPT !.ref = FALSE]
AssignReconnectTimeout(t, h, delay) ==
  LET old == RefTimers(t, h)
      kept == t (-) SetToBag(old)
      orphans == IF old = {} THEN EmptyBag
                 ELSE LET o == CHOOSE x \in old : TRUE
                      IN  [y \in {Unref(o)} |-> CopiesIn(o, t)]
  IN  (kept (+) orphans) (+) SetToBag({Task("reconnect", h, h, delay, TRUE)})

\* Objects the program can still reach: through the registry, a pending
\* callback or a suspended call.  The fields of any other object are
\* unobservable; its heap cell is reset (its socket state is kept).
Reachable(i, t, c) ==
  {i[id] : id \in Ids} \cup {x.inst : x \in BagToSet(t)} \cup {c[k].inst : k \in Slots}
Gc(d, i, t, c) == [h \in Handles |-> IF h \in Reachable(i, t, c) THEN d[h] ELSE FreeObj]

Commit(d, i, t, c) ==
  /\ instances' = i
  /\ tasks' = t
  /\ calls' = c
  /\ data' = Gc(d, i, t, c)

\* socket.end(undefined)
End(s, h) == [s EXCEPT ![h].st = "ended"]

\* ------------------------------------------------------------------ Init
\* no validateNumber call is followed
NoProbe == [net |-> <<>>, call |-> <<>>]

\* balance transactions at one time
MaxTx == 2
TxSlots == 1 .. MaxTx
IdleTx == [op |-> "idle", pc |-> "idle", user |-> "none", seen |-> 0]
\* no balance is followed
NoLedger == [balance |-> [u \in Users |-> 0], tx |-> [t \in TxSlots |-> IdleTx]]

\* What a previous run left on disk: nothing, or the credentials of u1's c1.
EmptyDisk == [u \in Users |-> [id \in Ids |-> "none"]]
Disks == {EmptyDisk, [EmptyDisk EXCEPT !["u1"]["c1"] = "creds"]}

Init ==
  /\ instances = [id \in Ids |-> NoInst]
  /\ data = [h \in Handles |-> FreeObj]
  /\ sock = [h \in Handles |-> NoSock]
  /\ tasks = EmptyBag
  /\ calls = [k \in Slots |-> IdleCall]
  /\ authDir \in Disks
  /\ restore = [pc |-> "boot", idx |-> 0]
  /\ minted = {id \in Ids : \E u \in Users : authDir[u][id] # "none"}
  /\ last = NoLabel
  /\ probe = NoProbe
  /\ ledger = NoLedger
  /\ now = 0

Running == restore.pc # "boot"

\* --------------------------------------------- connection.update handlers
ShouldReconnect(o) ==
  o.shouldBeConnected /\ o.reconnectionAttempts < MaxReconnectAttempts

IsRestartRequired(reason) ==
  reason = DisconnectReason.restartRequired \/ reason = 515

\* a close handler that treats a permanent cause like any other cause
CloseDataNoPermanent(d, cur, reason) ==
  IF cur = NoInst THEN d
  ELSE IF IsRestartRequired(reason)
    THEN [d EXCEPT ![cur].status = "disconnected", ![cur].shouldBeConnected = TRUE]
  ELSE [d EXCEPT ![cur].status = "disconnected"]

\* handleConnectionClose, the fields it writes.  cur is the instance the
\* handler read from the registry (NoInst: undefined, nothing happens).
CloseData(d, cur, reason) ==
  IF cur = NoInst THEN d
  ELSE IF IsRestartRequired(reason)
    THEN [d EXCEPT ![cur].status = "disconnected", ![cur].shouldBeConnected = TRUE]
  ELSE IF reason \in permanentDisconnectReasons
    THEN [d EXCEPT ![cur].status = "disconnected", ![cur].shouldBeConnected = FALSE]
  ELSE [d EXCEPT ![cur].status = "disconnected"]

\* handleConnectionClose, the timers it sets.
CloseTasks(t, d, cur, reason) ==
  IF cur = NoInst THEN t
  ELSE IF IsRestartRequired(reason)
    THEN t (+) SetToBag({Task("restart", cur, cur, RestartDelay, FALSE)})
  ELSE IF reason \in permanentDisconnectReasons THEN t
  ELSE IF ShouldReconnect(d[cur])
    THEN AssignReconnectTimeout(t, cur, DelayTime(d[cur].reconnectionAttempts))
  ELSE t

\* connection.update {connection: 'close', lastDisconnect} emitted by socket h
EvClose(h, reason) ==
  /\ Running
  /\ sock[h].st = "open"
  /\ LET cur == Get(sock[h].id)
         t == CloseTasks(tasks, data, cur, reason)
     IN  /\ Fits(t)
         /\ Commit(CloseData(data, cur, reason), instances, t, calls)
         /\ last' = Label("close", "none", sock[h].id, cur, reason, "none")
  /\ UNCHANGED <<now, ledger, probe, sock, authDir, restore, minted>>

\* socket.end(undefined): the cause handleConnectionClose reads from the
\* close report of a socket the program ended itself (statusCode undefined)
NoReason == 0

\* connection.update {connection: 'close'} of a socket the program has
\* ended, when the listener runs after the call that ended it has gone on:
\* handleConnectionUpdate looks the instance up under the connection id.
EvCloseEnded(h) ==
  /\ Running
  /\ sock[h].st = "ended"
  /\ LET cur == Get(sock[h].id)
         t == CloseTasks(tasks, data, cur, NoReason)
     IN  /\ Fits(t)
         /\ Commit(CloseData(data, cur, NoReason), instances, t, calls)
         /\ last' = Label("close_ended", "none", sock[h].id, cur, h, "none")
  /\ sock' = [sock EXCEPT ![h].st = "closed"]
  /\ UNCHANGED <<now, ledger, probe, authDir, restore, minted>>

\* connection.update {qr} emitted by socket h: the handler suspends at
\* await QRCode.toDataURL(qr) holding the instance it read.
EvQr(h) ==
  /\ Running
  /\ sock[h].st = "open"
  /\ LET cur == Get(sock[h].id)
         accept == cur # NoInst /\ data[cur].pairingMethod = "qr"
         t == IF accept THEN tasks (+) SetToBag({Task("qr", cur, h, 0, FALSE)}) ELSE tasks
     IN  /\ Fits(t)
         /\ Commit(data, instances, t, calls)
         /\ last' = NoLabel
  /\ UNCHANGED <<now, ledger, probe, sock, authDir, restore, minted>>

\* a qr branch that sets the status without storing the payload
QrDataStatusOnly(d, h) == [d EXCEPT ![h].status = "qr_pending"]

\* the rest of the qr branch: instance.qr = qrCode; instance.status = 'qr_pending'
QrData(d, h) == [d EXCEPT ![h].qr = TRUE, ![h].status = "qr_pending"]

QrResume(x) ==
  /\ x.kind = "qr" /\ BagIn(x, tasks)
  /\ Commit(QrData(data, x.inst), instances, tasks (-) SetToBag({x}), calls)
  /\ last' = NoLabel
  /\ UNCHANGED <<now, ledger, probe, sock, authDir, restore, minted>>

\* connection.update {connection: 'connecting'} emitted by socket h
EvConnecting(h) ==
  /\ Running
  /\ sock[h].st = "open"
  /\ LET cur == Get(sock[h].id)
         want == /\ cur # NoInst
                 /\ data[cur].pairingMethod = "code"
                 /\ data[cur].phoneNumber
                 /\ ~data[cur].pairingCode
         t == IF want THEN tasks (+) SetToBag({Task("pairing", cur, h, PairingDelay, FALSE)})
              ELSE tasks
     IN  /\ Fits(t)
         /\ Commit(data, instances, t, calls)
         /\ last' = NoLabel
  /\ UNCHANGED <<now, ledger, probe, sock, authDir, restore, minted>>

\* the pairing timer fires: sock.requestPairingCode answers (ok) or throws
PairingFire(x, ok) ==
  /\ x.kind = "pairing" /\ BagIn(x, tasks)
  /\ Commit(IF ok THEN [data EXCEPT ![x.inst].pairingCode = TRUE, ![x.inst].status = "code_pending"]
            ELSE [data EXCEPT ![x.inst].status = "disconnected"],
            instances, tasks (-) SetToBag({x}), calls)
  /\ last' = NoLabel
  /\ UNCHANGED <<now, ledger, probe, sock, authDir, restore, minted>>

\* connection.update {connection: 'open'} emitted by socket h: the handler
\* suspends at await sock.profilePictureUrl(...) holding the instance it read.
EvOpen(h) ==
  /\ Running
  /\ sock[h].st = "open"
  /\ LET cur == Get(sock[h].id)
         t == IF cur # NoInst THEN tasks (+) SetToBag({Task("open", cur, h, 0, FALSE)}) ELSE tasks
     IN  /\ Fits(t)
         /\ Commit(data, instances, t, calls)
         /\ last' = NoLabel
  /\ UNCHANGED <<now, ledger, probe, sock, authDir, restore, minted>>

\* What await sock.profilePictureUrl(sock.user.id, 'image') may do: resolve
\* with a URL, resolve with undefined, or reject.
Fetches == {"url", "none", "rejected"}

\* sock.profilePictureUrl(...).catch(() => ''): whether the value assigned
\* to instance.profilePicture is a URL
ProfilePicture(fetched) == fetched = "url"

\* a handler in which a rejected fetch skips the assignments
OpenDataUnlessRejected(d, h, fetched) ==
  IF fetched = "rejected" THEN d
  ELSE [d EXCEPT ![h].status = "connected", ![h].number = TRUE, ![h].reconnectionAttempts = 0,
                 ![h].profilePicture = ProfilePicture(fetched)]

\* handleConnectionOpen after the await: the fields it writes
OpenData(d, h, fetched) ==
  [d EXCEPT ![h].status = "connected", ![h].profilePicture = ProfilePicture(fetched),
            ![h].number = TRUE, ![h].reconnectionAttempts = 0, ![h].lastActivity = now]

\* the handler resumes with the outcome of the fetch, writes the fields and
\* clears the timer instance.reconnectTimeout references
OpenSettle(x, fetched) ==
  /\ x.kind = "open" /\ BagIn(x, tasks)
  /\ Commit(OpenData(data, x.inst, fetched), instances,
            ClearReconnectTimeout(tasks (-) SetToBag({x}), x.inst), calls)
  /\ UNCHANGED <<now, ledger, probe, sock, authDir, restore, minted>>

\* where the picture is not followed: the fetch is rejected
OpenResume(x) == OpenSettle(x, "rejected") /\ last' = NoLabel

\* the handler resumes with any outcome of the fetch; last records the
\* outcome and the reconnectionAttempts the handler found
OpenFetched(x, fetched) ==
  /\ OpenSettle(x, fetched)
  /\ last' = Label("open", data[x.inst].userId, data[x.inst].instanceId, x.inst,
                   data[x.inst].reconnectionAttempts, fetched)

\* creds.update emitted by socket h: saveCreds writes creds.json into the
\* socket's auth directory; the write fails (logged) when the directory is gone.
EvCredsUpdate(h) ==
  /\ Running
  /\ sock[h].st = "open"
  /\ authDir[sock[h].user][sock[h].id] = "dir"
  /\ authDir' = [authDir EXCEPT ![sock[h].user][sock[h].id] = "creds"]
  /\ last' = NoLabel
  /\ UNCHANGED <<now, ledger, probe, instances, data, sock, tasks, calls, restore, minted>>

\* the reconnect timer's callback
ReconnectData(d, h) ==
  IF ShouldReconnect(d[h])
  THEN [d EXCEPT ![h].reconnectionAttempts = @ + 1]
  ELSE [d EXCEPT ![h].shouldBeConnected = FALSE]

ReconnectFire(x) ==
  /\ x.kind = "reconnect" /\ BagIn(x, tasks)
  /\ Commit(ReconnectData(data, x.inst), instances, tasks (-) SetToBag({x}), calls)
  /\ last' = NoLabel
  /\ UNCHANGED <<now, ledger, probe, sock, authDir, restore, minted>>

\* the callback of the restartRequired / 515 timer: it reads
\* instance.shouldBeConnected, logs, and changes nothing.
RestartData(d, h) == d

RestartFire(x) ==
  /\ x.kind = "restart" /\ BagIn(x, tasks)
  /\ Commit(RestartData(data, x.inst), instances, tasks (-) SetToBag({x}), calls)
  /\ last' = NoLabel
  /\ UNCHANGED <<now, ledger, probe, sock, authDir, restore, minted>>

\* ------------------------------------------------------- supervisor calls
\* An id a caller can name: uuidv4() of a createConnection that has not
\* yet registered its instance is known to nobody.
Known(id) == ~ \E k \in Slots : calls[k].op = "create" /\ calls[k].pc = "auth" /\ calls[k].id = id

\* uuidv4(): an id that has never been in use
Fresh(id) == id \notin minted

\* fs.mkdirSync(authPath, {recursive: true}) when the path does not exist
Mkdir(a, u, id) == IF a[u][id] = "none" THEN [a EXCEPT ![u][id] = "dir"] ELSE a

\* phoneNumber.replace(/\D/g, '') has 10 to 15 digits: p = "ok"; fewer or
\* more: p = "bad"; no phoneNumber given: p = "none".
PhoneRejected(m, p) == m = "code" /\ p # "ok"

\* createConnection up to await useMultiFileAuthState: mkdir, then the phone
\* number check (which throws outside the try block).
CreateStart(u, id, m, p) ==
  /\ Running
  /\ Fresh(id)
  /\ m = "qr" => p = "none"
  /\ minted' = minted \cup {id}
  /\ authDir' = Mkdir(authDir, u, id)
  /\ IF PhoneRejected(m, p)
     THEN /\ last' = Label("create", u, id, NoInst, 0, "error")
          /\ UNCHANGED calls
     ELSE /\ FreeSlots # {}
          /\ calls' = [calls EXCEPT ![NewSlot] =
                         [op |-> "create", pc |-> "auth", user |-> u, id |-> id,
                          inst |-> NoInst, pairingMethod |-> m, phoneNumber |-> (p = "ok"),
                          shouldBeConnected |-> TRUE]]
          /\ last' = Label("create", u, id, NoInst, 0, "await")
  /\ UNCHANGED <<now, probe, instances, data, sock, tasks, restore>>

\* ConnectionManager.createConnection called directly
CreateBegin(u, id, m, p) == CreateStart(u, id, m, p) /\ UNCHANGED ledger

\* makeWASocket, the InstanceData literal, this.instances.set, setupSocketEvents:
\* shared by createConnection, restartConnection and restoreInstance, after
\* useMultiFileAuthState (which creates the directory when it is missing).
OpenInstance(id, u, m, phone, sbc, h, c) ==
  /\ sock' = [sock EXCEPT ![h] = OpenSock(id, u)]
  /\ authDir' = Mkdir(authDir, u, id)
  /\ Commit([data EXCEPT ![h] = NewInstanceData(id, u, m, phone, sbc)],
            [instances EXCEPT ![id] = h], tasks, c)

\* the suspended call k resumes after useMultiFileAuthState
OpenCall(k, h, nextPc) ==
  OpenInstance(calls[k].id, calls[k].user, calls[k].pairingMethod, calls[k].phoneNumber,
               calls[k].shouldBeConnected, h,
               [calls EXCEPT ![k].inst = h, ![k].pc = nextPc])

CreateOpen(k) ==
  /\ calls[k].op = "create" /\ calls[k].pc = "auth"
  /\ FreeHandles # {}
  /\ OpenCall(k, NewHandle,
             IF calls[k].pairingMethod = "code" /\ calls[k].phoneNumber THEN "pair" ELSE "poll")
  /\ last' = NoLabel
  /\ UNCHANGED <<now, ledger, probe, restore, minted>>

\* after the 2 s sleep: await sock.requestPairingCode(phoneNumber) answers
\* (ok) or throws (caught, logged); then the result is built and returned.
CreatePair(k, ok) ==
  LET c == calls[k]
      d == IF ok THEN [data EXCEPT ![c.inst].pairingCode = TRUE, ![c.inst].status = "code_pending"]
           ELSE data
  IN
  /\ c.op = "create" /\ c.pc = "pair"
  /\ Commit(d, instances, tasks, [calls EXCEPT ![k] = IdleCall])
  /\ last' = Label("create_return", c.user, c.id, c.inst, 0,
                   IF d[c.inst].pairingCode THEN "code" ELSE "empty")
  /\ UNCHANGED <<now, ledger, probe, sock, authDir, restore, minted>>

\* what the bootstrap loop waits for
\* (createConnection: instanceData.qr; restartConnection: qr or pairingCode by method)
Materialized(c) ==
  IF c.op = "create" THEN data[c.inst].qr
  ELSE IF c.pairingMethod = "qr" THEN data[c.inst].qr
  ELSE data[c.inst].pairingCode

\* result.qrCode / result.pairingCode
ResultOf(c) ==
  IF c.pairingMethod = "qr"
  THEN (IF data[c.inst].qr THEN "qr" ELSE "empty")
  ELSE (IF data[c.inst].pairingCode THEN "code" ELSE "empty")

\* The bootstrap loop, while (attempts < maxAttempts) { await 500 ms;
\* if (materialized) break; attempts++ }, leaves at the first turn that sees
\* the value, or when the counter runs out without having seen it.  A turn
\* that only counts changes nothing another handler can read; qr and
\* pairingCode are never unset on an instance, so a loop that runs out saw
\* no value at any earlier turn either.  PollSeen is the turn that breaks,
\* PollTimeout the turn that exhausts the counter.
PollReturn(k) ==
  LET c == calls[k] IN
  /\ c.op \in {"create", "restart"} /\ c.pc = "poll"
  /\ Commit(data, instances, tasks, [calls EXCEPT ![k] = IdleCall])
  /\ last' = Label(IF c.op = "create" THEN "create_return" ELSE "restart_return",
                   c.user, c.id, c.inst, 0, ResultOf(c))
  /\ UNCHANGED <<now, ledger, probe, sock, authDir, restore, minted>>

PollSeen(k) == calls[k].inst # NoInst /\ Materialized(calls[k]) /\ PollReturn(k)

PollTimeout(k) == calls[k].inst # NoInst /\ ~Materialized(calls[k]) /\ PollReturn(k)

\* restartConnection, the caller check: an instance that exists and belongs
\* to another user makes the call throw; a missing instance does not.
RestartDenied(u, cur) == cur # NoInst /\ data[cur].userId # u

RestartRejected(u, id) ==
  /\ Running
  /\ Known(id)
  /\ RestartDenied(u, Get(id))
  /\ last' = NoLabel
  /\ UNCHANGED <<now, ledger, probe, instances, data, sock, tasks, calls, authDir, restore, minted>>

\* restartConnection up to await useMultiFileAuthState: the instance's
\* settings are saved, its timer cleared, its socket ended, its entry deleted
\* (the auth directory is kept, and created when missing).
RestartBegin(u, id) ==
  LET cur == Get(id) IN
  /\ Running
  /\ Known(id)
  /\ ~RestartDenied(u, cur)
  /\ FreeSlots # {}
  /\ sock' = IF cur # NoInst THEN End(sock, cur) ELSE sock
  /\ authDir' = Mkdir(authDir, u, id)
  /\ Commit(data,
            [instances EXCEPT ![id] = NoInst],
            IF cur # NoInst THEN ClearReconnectTimeout(tasks, cur) ELSE tasks,
            [calls EXCEPT ![NewSlot] =
               [op |-> "restart", pc |-> "auth", user |-> u, id |-> id, inst |-> NoInst,
                pairingMethod |-> IF cur # NoInst THEN data[cur].pairingMethod ELSE "qr",
                phoneNumber |-> IF cur # NoInst THEN data[cur].phoneNumber ELSE FALSE,
                shouldBeConnected |-> IF cur # NoInst THEN data[cur].shouldBeConnected ELSE TRUE]])
  /\ last' = Label("restart", u, id, cur, 0, "await")
  /\ minted' = minted \cup {id}
  /\ UNCHANGED <<now, ledger, probe, restore>>

RestartOpen(k) ==
  /\ calls[k].op = "restart" /\ calls[k].pc = "auth"
  /\ FreeHandles # {}
  /\ OpenCall(k, NewHandle, "poll")
  /\ last' = NoLabel
  /\ UNCHANGED <<now, ledger, probe, restore, minted>>

\* cleanup(userId, connectionId): whatever instance the registry holds under
\* the id is disowned and ended, the entry is deleted, and the directory of
\* (userId, connectionId) is removed.
CleanupData(d, cur) == IF cur # NoInst THEN [d EXCEPT ![cur].shouldBeConnected = FALSE] ELSE d
CleanupTasks(t, cur) == IF cur # NoInst THEN ClearReconnectTimeout(t, cur) ELSE t
CleanupSock(s, cur) == IF cur # NoInst THEN End(s, cur) ELSE s
CleanupDir(a, u, id) == [a EXCEPT ![u][id] = "none"]

Cleanup(u, id, c) ==
  LET cur == Get(id) IN
  /\ sock' = CleanupSock(sock, cur)
  /\ authDir' = CleanupDir(authDir, u, id)
  /\ Commit(CleanupData(data, cur), [instances EXCEPT ![id] = NoInst],
            CleanupTasks(tasks, cur), c)

\* removeConnection: the owner's branch (flag, timer, logout when connected),
\* then cleanup for every caller.  An id a caller has named is not one
\* uuidv4() returns later.
IsOwner(u, cur) == cur # NoInst /\ data[cur].userId = u

RemoveConnection(u, id) ==
  LET cur == Get(id) IN
  /\ Running
  /\ Known(id)
  /\ IF IsOwner(u, cur) /\ data[cur].status = "connected"
     THEN \* suspended at await instance.socket.logout()
          /\ FreeSlots # {}
          /\ Commit([data EXCEPT ![cur].shouldBeConnected = FALSE], instances,
                    ClearReconnectTimeout(tasks, cur),
                    [calls EXCEPT ![NewSlot] =
                       [IdleCall EXCEPT !.op = "remove", !.pc = "logout", !.user = u,
                                        !.id = id, !.inst = cur]])
          /\ last' = Label("remove", u, id, cur, 0, "await")
          /\ UNCHANGED <<sock, authDir>>
     ELSE /\ Cleanup(u, id, calls)
          /\ last' = Label("remove", u, id, cur, 0, "ok")
  /\ minted' = minted \cup {id}
  /\ UNCHANGED <<now, ledger, probe, restore>>

\* logout answered or threw (swallowed): cleanup
RemoveResume(k) ==
  /\ calls[k].op = "remove" /\ calls[k].pc = "logout"
  /\ Cleanup(calls[k].user, calls[k].id, [calls EXCEPT ![k] = IdleCall])
  /\ last' = Label("remove_return", calls[k].user, calls[k].id, Get(calls[k].id), 0, "ok")
  /\ UNCHANGED <<now, ledger, probe, restore, minted>>

\* a filter that looks at the status only
SweptAnyDisconnected ==
  {id \in Ids : /\ Get(id) # NoInst
                /\ data[Get(id)].status = "disconnected"}

\* cleanupDisconnectedInstances (the 60 s interval): cleanup(instance.userId, id)
\* of every entry that is disconnected and not meant to be connected.
Swept ==
  {id \in Ids : /\ Get(id) # NoInst
                /\ data[Get(id)].status = "disconnected"
                /\ ~data[Get(id)].shouldBeConnected}

Sweep ==
  /\ Running
  /\ Swept # {}
  /\ LET hs == {Get(id) : id \in Swept} IN
     /\ sock' = [h \in Handles |-> IF h \in hs THEN [sock[h] EXCEPT !.st = "ended"] ELSE sock[h]]
     /\ authDir' = [u \in Users |-> [id \in Ids |->
                      IF id \in Swept /\ data[Get(id)].userId = u THEN "none" ELSE authDir[u][id]]]
     /\ Commit(data, [id \in Ids |-> IF id \in Swept THEN NoInst ELSE instances[id]],
               tasks (-) SetToBag({x \in BagToSet(tasks) : x.kind = "reconnect" /\ x.ref /\ x.inst \in hs}),
               calls)
  /\ last' = Label("sweep", "none", "none", NoInst, 0, "ok")
  /\ UNCHANGED <<now, ledger, probe, restore, minted>>

\* cleanupDisconnectedInstances when the filter finds nothing: it returns.
SweepIdle ==
  /\ Running
  /\ Swept = {}
  /\ last' = Label("sweep", "none", "none", NoInst, 0, "idle")
  /\ UNCHANGED <<now, ledger, probe, instances, data, sock, tasks, calls, authDir, restore, minted>>

\* a getConnection that does not compare the caller with the owner
GetResultAnyCaller(u, id) == IF Get(id) # NoInst THEN "found" ELSE "undefined"

\* getConnection: undefined unless the instance exists and is the caller's
GetResult(u, id) == IF IsOwner(u, Get(id)) THEN "found" ELSE "undefined"

GetConnection(u, id) ==
  /\ Running
  /\ Known(id)
  /\ last' = NoLabel
  /\ UNCHANGED <<now, ledger, probe, instances, data, sock, tasks, calls, authDir, restore, minted>>

\* ----------------------------------------------- outbound operations
\* a guard that does not look at the status
SendMessageDeniedOwnerOnly(u, cur) ==
  IF cur = NoInst THEN TRUE
  ELSE data[cur].userId # u

\* the guard of sendMessage, sendFile and validateNumber:
\* !instance || instance.status !== 'connected' || instance.userId !== userId
SendMessageDenied(u, cur) ==
  IF cur = NoInst THEN TRUE
  ELSE IF data[cur].status # "connected" THEN TRUE
  ELSE data[cur].userId # u
SendFileDenied(u, cur) ==
  IF cur = NoInst THEN TRUE
  ELSE IF data[cur].status # "connected" THEN TRUE
  ELSE data[cur].userId # u
ValidateNumberDenied(u, cur) ==
  IF cur = NoInst THEN TRUE
  ELSE IF data[cur].status # "connected" THEN TRUE
  ELSE data[cur].userId # u

OutboundOps == {"sendMessage", "sendFile", "validateNumber"}

Denied(op, u, cur) ==
  IF op = "sendMessage" THEN SendMessageDenied(u, cur)
  ELSE IF op = "sendFile" THEN SendFileDenied(u, cur)
  ELSE ValidateNumberDenied(u, cur)

\* the guard throws: nothing is touched
OutboundRejected(op, u, id) ==
  /\ Running
  /\ Known(id)
  /\ Denied(op, u, Get(id))
  /\ last' = NoLabel
  /\ UNCHANGED <<now, ledger, probe, instances, data, sock, tasks, calls, authDir, restore, minted>>

\* the guard passes; the call keeps the instance it read and suspends at its
\* first network round trip (onWhatsApp, reached through getValidJid by the
\* two send operations).
OutboundBegin(op, u, id) ==
  /\ Running
  /\ Known(id)
  /\ ~Denied(op, u, Get(id))
  /\ FreeSlots # {}
  /\ Commit(data, instances, tasks,
            [calls EXCEPT ![NewSlot] =
               [IdleCall EXCEPT !.op = op, !.pc = "probe", !.user = u, !.id = id,
                                !.inst = Get(id)]])
  /\ last' = Label(op, u, id, Get(id), 0, "await")
  /\ UNCHANGED <<now, ledger, probe, sock, authDir, restore, minted>>

\* after socket.sendMessage: instance.lastActivity = new Date()
Sent(d, h) == [d EXCEPT ![h].lastActivity = now]

\* the identity probes (and the best-effort enrichment calls) came back.
\* validateNumber returns; a send whose recipient did not resolve throws;
\* sendFile goes straight to socket.sendMessage; sendMessage first runs its
\* presence sequence with its delays.
ProbeResume(k, exists) ==
  LET c == calls[k]
      done == c.op = "validateNumber" \/ ~exists \/ c.op = "sendFile"
  IN
  /\ c.op \in OutboundOps /\ c.pc = "probe"
  /\ Commit(IF exists /\ c.op = "sendFile" THEN Sent(data, c.inst) ELSE data, instances, tasks,
            IF done THEN [calls EXCEPT ![k] = IdleCall] ELSE [calls EXCEPT ![k].pc = "presence"])
  /\ last' = IF c.op = "validateNumber"
               THEN Label("validate_return", c.user, c.id, c.inst, 0, IF exists THEN "exists" ELSE "absent")
             ELSE IF ~exists THEN Label("send_return", c.user, c.id, c.inst, 0, "error")
             ELSE IF c.op = "sendFile" THEN Label("net_send", c.user, c.id, c.inst, 0, data[c.inst].status)
             ELSE NoLabel
  /\ UNCHANGED <<now, ledger, probe, sock, authDir, restore, minted>>

\* sendMessage after presenceSubscribe / composing / paused and their delays:
\* instance.socket.sendMessage on the instance read at entry
Deliver(k) ==
  LET c == calls[k] IN
  /\ c.op = "sendMessage" /\ c.pc = "presence"
  /\ Commit(Sent(data, c.inst), instances, tasks, [calls EXCEPT ![k] = IdleCall])
  /\ last' = Label("net_send", c.user, c.id, c.inst, 0, data[c.inst].status)
  /\ UNCHANGED <<now, ledger, probe, sock, authDir, restore, minted>>

\* ------------------------------------------------- history and read APIs
\* items of each kind (contacts, chats, messages) a history snapshot carries
MaxItems == 2

\* instance.contacts, instance.chats, instance.messages: InstanceData
\* declares no such field and no statement of the program assigns one, so
\* each reads as undefined, here the empty list.
InstanceContacts(h) == <<>>
InstanceChats(h) == <<>>
InstanceMessages(h) == <<>>

\* the guard of getContacts, getChats and getMessages
ReadDenied(u, cur) ==
  IF cur = NoInst THEN TRUE
  ELSE IF data[cur].status # "connected" THEN TRUE
  ELSE data[cur].userId # u

\* getContacts / getChats / getMessages: the stored items when there are
\* any (messages: the first `limit` of them), else []
GetContacts(u, cur) ==
  IF ReadDenied(u, cur) THEN "error"
  ELSE IF Len(InstanceContacts(cur)) > 0 THEN InstanceContacts(cur) ELSE <<>>
GetChats(u, cur) ==
  IF ReadDenied(u, cur) THEN "error"
  ELSE IF Len(InstanceChats(cur)) > 0 THEN InstanceChats(cur) ELSE <<>>
GetMessages(u, cur, limit) ==
  IF ReadDenied(u, cur) THEN "error"
  ELSE IF Len(InstanceMessages(cur)) > 0
    THEN SubSeq(InstanceMessages(cur), 1, Min(limit, Len(InstanceMessages(cur))))
  ELSE <<>>

\* messaging-history.set emitted by socket h with n contacts, n chats and n
\* messages: the handler logs the three counts and sets
\* instance.lastActivity (a time stamp, not part of the state).
\* const instance = this.instances.get(connectionId);
\* if (instance) { instance.lastActivity = new Date(); }
Touch(d, cur) == IF cur = NoInst THEN d ELSE [d EXCEPT ![cur].lastActivity = now]

\* the events of setupSocketEvents other than creds.update,
\* messaging-history.set and connection.update
InboundKinds ==
  {"messages.upsert", "messages.update", "messages.delete",
   "messages.reaction", "message-receipt.update", "chats.upsert", "chats.update",
   "chats.delete", "contacts.upsert", "contacts.update", "blocklist.set",
   "blocklist.update", "call", "groups.upsert", "groups.update",
   "group-participants.update"}

\* the listeners whose body assigns instance.lastActivity
TouchingKinds ==
  {"messages.upsert", "messages.update", "chats.upsert",
   "chats.update", "contacts.upsert", "groups.upsert"}

\* socket h emits an event of the kind; its listener runs to the end (the
\* listeners have no await)
EvInbound(h, kind) ==
  /\ Running
  /\ sock[h].st = "open"
  /\ Commit(IF kind \in TouchingKinds THEN Touch(data, Get(sock[h].id)) ELSE data,
            instances, tasks, calls)
  /\ last' = Label("inbound", "none", sock[h].id, Get(sock[h].id), now, kind)
  /\ UNCHANGED <<now, ledger, sock, authDir, restore, minted, probe>>

\* time passes
MaxClock == 3
Tick ==
  /\ now < MaxClock
  /\ now' = now + 1
  /\ last' = NoLabel
  /\ UNCHANGED <<instances, data, sock, tasks, calls, authDir, restore, minted, probe, ledger>>

EvHistorySet(h, n) ==
  /\ Running
  /\ sock[h].st = "open"
  /\ Commit(Touch(data, Get(sock[h].id)), instances, tasks, calls)
  /\ last' = Label("history", "none", sock[h].id, Get(sock[h].id), n, "none")
  /\ UNCHANGED <<now, ledger, sock, authDir, restore, minted, probe>>

\* ------------------------------------------- the facade and the balance
\* WhatsAppService.createConnection: deductBalance(userId, 2, 'connection'),
\* then ConnectionManager.createConnection, then addBalance(userId, 2,
\* 'refund') when that throws.  deductBalance and addBalance each run one
\* database transaction: read the user's balance, compute the new one, write
\* it.  The transaction is opened with the database's default isolation, under
\* which the value read may be overwritten by another transaction before the
\* write; the database may also reject a transaction.
ConnectionPrice == 2
StartBalances == {1, 2, 4}

FreeTx == {t \in TxSlots : ledger.tx[t].op = "idle"}
NewTx == CHOOSE t \in FreeTx : \A j \in FreeTx : t <= j

\* the facade is called: deductBalance starts its transaction
FacadeCreateBegin(u) ==
  /\ Running
  /\ FreeTx # {}
  /\ ledger' = [ledger EXCEPT !.tx[NewTx] = [op |-> "debit", pc |-> "read", user |-> u, seen |-> 0]]
  /\ last' = NoLabel
  /\ UNCHANGED <<now, instances, data, sock, tasks, calls, authDir, restore, minted, probe>>

\* tx.user.findUnique answers; deductBalance throws InsufficientBalanceError
\* when balanceBefore - amount < 0, which the facade rethrows
LedgerRead(t) ==
  LET x == ledger.tx[t] IN
  /\ x.pc = "read"
  /\ IF x.op = "debit" /\ ledger.balance[x.user] - ConnectionPrice < 0
     THEN /\ ledger' = [ledger EXCEPT !.tx[t] = IdleTx]
          /\ last' = Label("debit", x.user, "none", NoInst, ledger.balance[x.user], "insufficient")
     ELSE /\ ledger' = [ledger EXCEPT !.tx[t].pc = "write", !.tx[t].seen = ledger.balance[x.user]]
          /\ last' = NoLabel
  /\ UNCHANGED <<now, instances, data, sock, tasks, calls, authDir, restore, minted, probe>>

\* tx.user.update({balance: balanceAfter}) and the commit; a refund ends the
\* facade call
LedgerWrite(t) ==
  LET x == ledger.tx[t] IN
  /\ x.pc = "write"
  /\ ledger' = IF x.op = "debit"
               THEN [ledger EXCEPT !.balance[x.user] = x.seen - ConnectionPrice, !.tx[t].pc = "paid"]
               ELSE [ledger EXCEPT !.balance[x.user] = x.seen + ConnectionPrice, !.tx[t] = IdleTx]
  /\ last' = Label(x.op, x.user, "none", NoInst, x.seen, "ok")
  /\ UNCHANGED <<now, instances, data, sock, tasks, calls, authDir, restore, minted, probe>>

\* the transaction is rejected by the database: deductBalance throws and the
\* facade throws 'Erro interno ao processar pagamento'; addBalance throws and
\* the facade logs it and rethrows the provisioning error
LedgerError(t) ==
  LET x == ledger.tx[t] IN
  /\ x.pc \in {"read", "write"}
  /\ ledger' = [ledger EXCEPT !.tx[t] = IdleTx]
  /\ last' = Label(x.op, x.user, "none", NoInst, 0, "failed")
  /\ UNCHANGED <<now, instances, data, sock, tasks, calls, authDir, restore, minted, probe>>

\* the facade resumes after the debit and calls
\* ConnectionManager.createConnection; when that throws, addBalance starts
\* its transaction
CreatePaid(t, id, m, p) ==
  LET x == ledger.tx[t] IN
  /\ x.op = "debit" /\ x.pc = "paid"
  /\ CreateStart(x.user, id, m, p)
  /\ ledger' = [ledger EXCEPT !.tx[t] =
                  IF PhoneRejected(m, p)
                  THEN [op |-> "refund", pc |-> "read", user |-> x.user, seen |-> 0]
                  ELSE IdleTx]

\* ------------------------------------------- validateNumber, probe by probe
\* A number as the caller writes it: a sequence of characters.
Digits == {"0", "1", "2", "3", "4", "5", "6", "7", "8", "9"}

\* number.replace(/\D/g, '')
CleanNumber(number) == SelectSeq(number, LAMBDA ch : ch \in Digits)

\* number.includes('@')
IncludesAt(number) == \E i \in 1 .. Len(number) : number[i] = "@"

\* getBrazilianNumberVariations: the numbers validateNumber tests, in order
GetBrazilianNumberVariations(number) ==
  LET cleanNumber == CleanNumber(number) IN
  IF IncludesAt(number) THEN <<number>>
  ELSE IF ~(Len(cleanNumber) >= 2 /\ SubSeq(cleanNumber, 1, 2) = <<"5", "5">>) THEN <<cleanNumber>>
  ELSE IF Len(cleanNumber) = 13
    THEN <<cleanNumber,
           <<"5", "5">> \o SubSeq(cleanNumber, 3, 4) \o SubSeq(cleanNumber, 6, 13)>>
  ELSE IF Len(cleanNumber) = 12
    THEN <<cleanNumber,
           <<"5", "5">> \o SubSeq(cleanNumber, 3, 4) \o <<"9">> \o SubSeq(cleanNumber, 5, 12)>>
  ELSE <<cleanNumber>>

\* testNumber.includes('@') ? testNumber : `${testNumber}@s.whatsapp.net`
JidOf(testNumber) ==
  IF IncludesAt(testNumber) THEN testNumber ELSE testNumber \o <<"@s.whatsapp.net">>

\* The subscribers whose numbers are validated: area code and the eight
\* digits of the line.
AreaCodes == {<<"1", "1">>, <<"2", "1">>}
Lines == {<<"8", "7", "6", "5", "4", "3", "2", "1">>, <<"9", "9", "1", "2", "3", "4", "5", "6">>}
With9(ddd, line) == <<"5", "5">> \o ddd \o <<"9">> \o line
Without9(ddd, line) == <<"5", "5">> \o ddd \o line
\* how a caller may write a number: bare digits, or with a leading "+"
Written(n) == {n, <<"+">> \o n}

\* What socket.onWhatsApp answers for a jid: nothing, or an entry that
\* exists, with or without a jid of its own.  The network answers the same
\* question the same way throughout.
NoJid == <<>>
Absent == [exists |-> FALSE, jid |-> NoJid]
Answers(ddd, line) ==
  {Absent} \cup
  {[exists |-> TRUE, jid |-> j] :
     j \in {NoJid, JidOf(With9(ddd, line)), JidOf(Without9(ddd, line))}}
Networks(ddd, line) ==
  [{JidOf(With9(ddd, line)), JidOf(Without9(ddd, line))} -> Answers(ddd, line)]
OnWhatsApp(net, jid) == IF jid \in DOMAIN net THEN net[jid] ELSE Absent

\* a validateNumber call: the number given, where it stands, the position
\* in numbersToTest, and what it returned
ProbeCall(number) ==
  [number |-> number, pc |-> "idle", idx |-> 0, exists |-> FALSE, jid |-> NoJid]
ProbeCalls == {1, 2}

\* validateNumber up to its first await instance.socket.onWhatsApp(jid)
ValidateBegin(c) ==
  /\ probe.call[c].pc = "idle"
  /\ ~ValidateNumberDenied("u1", Get("c1"))
  /\ probe' = [probe EXCEPT !.call[c].pc = "probe", !.call[c].idx = 1]
  /\ last' = NoLabel
  /\ UNCHANGED <<now, ledger, instances, data, sock, tasks, calls, authDir, restore, minted>>

\* onWhatsApp answered: the first variation that exists is taken, with
\* jid: validResult.jid || validJid; otherwise the next variation is tested;
\* after the last one the call returns { exists: false }.  The enrichment
\* calls that follow a hit change neither exists nor jid.
ValidateAnswer(c) ==
  LET k == probe.call[c]
      numbersToTest == GetBrazilianNumberVariations(k.number)
      jid == JidOf(numbersToTest[k.idx])
      results == OnWhatsApp(probe.net, jid)
  IN
  /\ k.pc = "probe"
  /\ probe' =
       IF results.exists
       THEN [probe EXCEPT !.call[c].pc = "done", !.call[c].exists = TRUE,
                          !.call[c].jid = IF results.jid # NoJid THEN results.jid ELSE jid]
       ELSE IF k.idx < Len(numbersToTest)
       THEN [probe EXCEPT !.call[c].idx = k.idx + 1]
       ELSE [probe EXCEPT !.call[c].pc = "done"]
  /\ last' = NoLabel
  /\ UNCHANGED <<now, ledger, instances, data, sock, tasks, calls, authDir, restore, minted>>

\* ------------------------------------------------------- restoreInstances
\* readdirSync order of the (user, instance) directories
Pairs == <<<<"u1", "c1">>, <<"u2", "c1">>>>

\* the next directory after position i that exists when it is looked at
NextPair(a, i) ==
  LET later == {j \in (i + 1) .. Len(Pairs) : a[Pairs[j][1]][Pairs[j][2]] # "none"}
  IN  IF later = {} THEN 0 ELSE CHOOSE j \in later : \A j2 \in later : j <= j2

RestoreAt(a, i) ==
  IF NextPair(a, i) = 0 THEN [pc |-> "done", idx |-> 0]
  ELSE [pc |-> "await", idx |-> NextPair(a, i)]

\* first pass: directories without creds.json are removed
DropInvalid(a) == [u \in Users |-> [id \in Ids |-> IF a[u][id] = "dir" THEN "none" ELSE a[u][id]]]

\* restoreInstances from the listen callback up to its first await
RestoreBegin ==
  /\ restore.pc = "boot"
  /\ authDir' = DropInvalid(authDir)
  /\ restore' = RestoreAt(DropInvalid(authDir), 0)
  /\ last' = NoLabel
  /\ UNCHANGED <<now, ledger, probe, instances, data, sock, tasks, calls, minted>>

\* restoreInstance after useMultiFileAuthState, then on to the next directory
RestoreOpen ==
  /\ restore.pc = "await"
  /\ FreeHandles # {}
  /\ LET u == Pairs[restore.idx][1]
         id == Pairs[restore.idx][2]
     IN  /\ OpenInstance(id, u, "qr", FALSE, TRUE, NewHandle, calls)
         /\ restore' = RestoreAt(Mkdir(authDir, u, id), restore.idx)
         /\ last' = NoLabel
  /\ UNCHANGED <<now, ledger, probe, minted>>

\* ------------------------------------------------------------------ Next
Reasons == Causes
Methods == {"qr", "code"}
Phones == {"none", "ok", "bad"}

\* The supervisor with every stimulus but an owner's restart: one socket per
\* connection id.
Next ==
  \/ RestoreBegin
  \/ RestoreOpen
  \/ \E u \in Users, id \in Ids, m \in Methods, p \in Phones : CreateBegin(u, id, m, p)
  \/ \E k \in Slots : CreateOpen(k)
  \/ \E k \in Slots, ok \in BOOLEAN : CreatePair(k, ok)
  \/ \E k \in Slots : PollSeen(k)
  \/ \E k \in Slots : PollTimeout(k)
  \/ \E u \in Users, id \in Ids : RestartRejected(u, id)
  \/ \E u \in Users, id \in Ids : RemoveConnection(u, id)
  \/ \E k \in Slots : RemoveResume(k)
  \/ Sweep
  \/ \E u \in Users, id \in Ids : GetConnection(u, id)
  \/ \E op \in OutboundOps, u \in Users, id \in Ids : OutboundRejected(op, u, id)
  \/ \E h \in Handles, r \in Reasons : EvClose(h, r)
  \/ \E h \in Handles : EvQr(h)
  \/ \E h \in Handles : EvConnecting(h)
  \/ \E h \in Handles : EvOpen(h)
  \/ \E h \in Handles : EvCredsUpdate(h)
  \/ \E x \in BagToSet(tasks) : QrResume(x)
  \/ \E x \in BagToSet(tasks), ok \in BOOLEAN : PairingFire(x, ok)
  \/ \E x \in BagToSet(tasks) : OpenResume(x)
  \/ \E x \in BagToSet(tasks) : ReconnectFire(x)
  \/ \E x \in BagToSet(tasks) : RestartFire(x)

Spec == Init /\ [][Next]_vars

\* The supervisor calls and their interleavings at the awaits, restart
\* included, with the network only opening connections (no QR, no close).
NextHandles ==
  \/ RestoreBegin
  \/ RestoreOpen
  \/ \E u \in Users, id \in Ids, m \in Methods, p \in Phones : CreateBegin(u, id, m, p)
  \/ \E k \in Slots : CreateOpen(k)
  \/ \E k \in Slots, ok \in BOOLEAN : CreatePair(k, ok)
  \/ \E k \in Slots : PollTimeout(k)
  \/ \E u \in Users, id \in Ids : RestartRejected(u, id)
  \/ \E u \in Users, id \in Ids : RestartBegin(u, id)
  \/ \E k \in Slots : RestartOpen(k)
  \/ \E u \in Users, id \in Ids : RemoveConnection(u, id)
  \/ \E k \in Slots : RemoveResume(k)
  \/ \E h \in Handles : EvOpen(h)
  \/ \E x \in BagToSet(tasks) : OpenResume(x)

SpecHandles == Init /\ [][NextHandles]_vars

\* The reconnection policy left to itself: sessions restored at startup, the
\* close events of the network, the timers and the sweep; no caller acts.
NextRetry ==
  \/ RestoreBegin
  \/ RestoreOpen
  \/ \E h \in Handles, r \in Reasons : EvClose(h, r)
  \/ \E x \in BagToSet(tasks) : ReconnectFire(x)
  \/ \E x \in BagToSet(tasks) : RestartFire(x)
  \/ Sweep

\* A timer that was set fires once its delay has passed, and the 60 s
\* interval of the sweep keeps ticking.
FairRetry ==
  /\ WF_vars(\E x \in BagToSet(tasks) : ReconnectFire(x))
  /\ WF_vars(\E x \in BagToSet(tasks) : RestartFire(x))
  /\ WF_vars(Sweep)

SpecRetry == Init /\ [][NextRetry]_vars /\ FairRetry

\* The periodic sweep among sessions that are created, paired, opened and
\* closed by the network; every tick of the interval is a step.
NextSweep ==
  \/ RestoreBegin
  \/ RestoreOpen
  \/ \E u \in Users, id \in Ids, m \in Methods, p \in Phones : CreateBegin(u, id, m, p)
  \/ \E k \in Slots : CreateOpen(k)
  \/ \E k \in Slots, ok \in BOOLEAN : CreatePair(k, ok)
  \/ \E k \in Slots : PollSeen(k)
  \/ \E k \in Slots : PollTimeout(k)
  \/ \E h \in Handles, r \in Reasons : EvClose(h, r)
  \/ \E h \in Handles : EvQr(h)
  \/ \E h \in Handles : EvOpen(h)
  \/ \E x \in BagToSet(tasks) : QrResume(x)
  \/ \E x \in BagToSet(tasks) : OpenResume(x)
  \/ \E x \in BagToSet(tasks) : ReconnectFire(x)
  \/ \E x \in BagToSet(tasks) : RestartFire(x)
  \/ Sweep
  \/ SweepIdle

SpecSweep == Init /\ [][NextSweep]_vars

\* The life of a credential directory: sessions restored at startup, the
\* callers' restart and remove, the close events and the sweep, before any
\* timer fires.
NextLifetime ==
  \/ RestoreBegin
  \/ RestoreOpen
  \/ \E u \in Users, id \in Ids : RestartBegin(u, id)
  \/ \E k \in Slots : RestartOpen(k)
  \/ \E k \in Slots : PollTimeout(k)
  \/ \E u \in Users, id \in Ids : RemoveConnection(u, id)
  \/ \E h \in Handles, r \in Reasons : EvClose(h, r)
  \/ Sweep

SpecLifetime == Init /\ [][NextLifetime]_vars

\* Outbound operations among the events of their session: sessions restored
\* at startup or created, paired and opened, closed by the network or
\* removed by a caller, while sends and validations are in flight.
NextOutbound ==
  \/ RestoreBegin
  \/ RestoreOpen
  \/ \E u \in Users, id \in Ids, m \in Methods, p \in Phones : CreateBegin(u, id, m, p)
  \/ \E k \in Slots : CreateOpen(k)
  \/ \E k \in Slots, ok \in BOOLEAN : CreatePair(k, ok)
  \/ \E k \in Slots : PollSeen(k)
  \/ \E k \in Slots : PollTimeout(k)
  \/ \E u \in Users, id \in Ids : RemoveConnection(u, id)
  \/ \E k \in Slots : RemoveResume(k)
  \/ \E h \in Handles : EvQr(h)
  \/ \E x \in BagToSet(tasks) : QrResume(x)
  \/ \E h \in Handles : EvOpen(h)
  \/ \E x \in BagToSet(tasks) : OpenResume(x)
  \/ \E h \in Handles : EvClose(h, DisconnectReason.timedOut)
  \/ \E op \in OutboundOps, u \in Users, id \in Ids : OutboundRejected(op, u, id)
  \/ \E op \in OutboundOps, u \in Users, id \in Ids : OutboundBegin(op, u, id)
  \/ \E k \in Slots, exists \in BOOLEAN : ProbeResume(k, exists)
  \/ \E k \in Slots : Deliver(k)

SpecOutbound == Init /\ [][NextOutbound]_vars

\* validateNumber called for the two ways of writing one Brazilian mobile
\* number, on a connected session of u1, against each network.
InitProbe ==
  /\ now = 0
  /\ instances = [id \in Ids |-> 1]
  /\ data = [h \in Handles |->
               IF h = 1 THEN OpenData([g \in Handles |-> NewInstanceData("c1", "u1", "qr", FALSE, TRUE)], 1, "rejected")[1]
               ELSE FreeObj]
  /\ sock = [h \in Handles |-> IF h = 1 THEN OpenSock("c1", "u1") ELSE NoSock]
  /\ tasks = EmptyBag
  /\ calls = [k \in Slots |-> IdleCall]
  /\ authDir = [EmptyDisk EXCEPT !["u1"]["c1"] = "creds"]
  /\ restore = [pc |-> "done", idx |-> 0]
  /\ minted = Ids
  /\ last = NoLabel
  /\ \E ddd \in AreaCodes, line \in Lines :
       \E net \in Networks(ddd, line), n1 \in Written(With9(ddd, line)),
          n2 \in Written(Without9(ddd, line)) :
         probe = [net |-> net, call |-> <<ProbeCall(n1), ProbeCall(n2)>>]
  /\ ledger = NoLedger

NextProbe ==
  \/ \E c \in ProbeCalls : ValidateBegin(c)
  \/ \E c \in ProbeCalls : ValidateAnswer(c)

SpecProbe == InitProbe /\ [][NextProbe]_vars

\* createConnection's test of phoneNumber, on the number as the caller
\* writes it: !phoneNumber ("none"); cleanNumber = phoneNumber.replace(/\D/g, '')
\* with cleanNumber.length < 10 or > 15 ("bad"); anything else passes ("ok").
PhoneClass(phoneNumber) ==
  IF phoneNumber = <<>> THEN "none"
  ELSE IF Len(CleanNumber(phoneNumber)) < 10 THEN "bad"
  ELSE IF Len(CleanNumber(phoneNumber)) > 15 THEN "bad"
  ELSE "ok"

\* phone numbers a caller may send: none, digits of several lengths, and
\* numbers written with "+", blanks, a dash or letters
NineDigits == <<"1", "1", "9", "8", "7", "6", "5", "4", "3">>
PhoneInputs ==
  { <<>>,
    NineDigits,
    NineDigits \o <<"2">>,
    <<"5", "5", "1", "1">> \o NineDigits,
    NineDigits \o <<"2", "1", "0", "5", "5", "1">>,
    NineDigits \o <<"2", "1", "0", "5", "5", "1", "1">>,
    <<"+", "5", "5", "1", "1">> \o NineDigits,
    <<"5", "5", " ", "1", "1", " ">> \o SubSeq(NineDigits, 3, 6) \o <<"-">> \o SubSeq(NineDigits, 5, 9),
    NineDigits \o <<"-">>,
    <<"a", "b", "c">> }

\* createConnection called with a phone number as written
CreateWritten(u, id, m, phoneNumber) == CreateBegin(u, id, m, PhoneClass(phoneNumber))

\* Creation and pairing: every way of calling createConnection, and what the
\* network and the bootstrap loop do with the session created.
NextPhone ==
  \/ RestoreBegin
  \/ RestoreOpen
  \/ \E u \in Users, id \in Ids, m \in Methods, n \in PhoneInputs : CreateWritten(u, id, m, n)
  \/ \E k \in Slots : CreateOpen(k)
  \/ \E k \in Slots, ok \in BOOLEAN : CreatePair(k, ok)
  \/ \E k \in Slots : PollSeen(k)
  \/ \E k \in Slots : PollTimeout(k)
  \/ \E h \in Handles : EvQr(h)
  \/ \E x \in BagToSet(tasks) : QrResume(x)
  \/ \E h \in Handles : EvConnecting(h)
  \/ \E x \in BagToSet(tasks), ok \in BOOLEAN : PairingFire(x, ok)
  \/ \E h \in Handles : EvOpen(h)
  \/ \E x \in BagToSet(tasks) : OpenResume(x)

SpecPhone == Init /\ [][NextPhone]_vars

\* The bootstrap of create and restart: the calls, the QR payloads the
\* network may emit and the answer it may give to the pairing-code request.
NextBootstrap ==
  \/ RestoreBegin
  \/ RestoreOpen
  \/ \E u \in Users, id \in Ids, m \in Methods, p \in Phones : CreateBegin(u, id, m, p)
  \/ \E k \in Slots : CreateOpen(k)
  \/ \E k \in Slots, ok \in BOOLEAN : CreatePair(k, ok)
  \/ \E k \in Slots : PollSeen(k)
  \/ \E k \in Slots : PollTimeout(k)
  \/ \E u \in Users, id \in Ids : RestartBegin(u, id)
  \/ \E k \in Slots : RestartOpen(k)
  \/ \E h \in Handles : EvQr(h)
  \/ \E x \in BagToSet(tasks) : QrResume(x)

\* What the program itself guarantees: reading the auth state from the local
\* disk completes, and the 500 ms timers of the bootstrap loop fire until the
\* loop leaves.  Nothing makes the network emit a QR payload or answer
\* requestPairingCode.
FairBootstrap ==
  /\ WF_vars(RestoreOpen)
  /\ WF_vars(\E k \in Slots : CreateOpen(k))
  /\ WF_vars(\E k \in Slots : RestartOpen(k))
  /\ WF_vars(\E k \in Slots : PollSeen(k) \/ PollTimeout(k))
  /\ WF_vars(\E x \in BagToSet(tasks) : QrResume(x))

SpecBootstrap == Init /\ [][NextBootstrap]_vars /\ FairBootstrap

\* History snapshots among the events of a session that is created or
\* restored, paired, opened and closed.
NextHistory ==
  \/ RestoreBegin
  \/ RestoreOpen
  \/ \E u \in Users, id \in Ids, m \in Methods, p \in Phones : CreateBegin(u, id, m, p)
  \/ \E k \in Slots : CreateOpen(k)
  \/ \E k \in Slots, ok \in BOOLEAN : CreatePair(k, ok)
  \/ \E k \in Slots : PollSeen(k)
  \/ \E k \in Slots : PollTimeout(k)
  \/ \E h \in Handles : EvQr(h)
  \/ \E x \in BagToSet(tasks) : QrResume(x)
  \/ \E h \in Handles : EvOpen(h)
  \/ \E x \in BagToSet(tasks) : OpenResume(x)
  \/ \E h \in Handles : EvClose(h, DisconnectReason.timedOut)
  \/ \E h \in Handles, n \in 1 .. MaxItems : EvHistorySet(h, n)

SpecHistory == Init /\ [][NextHistory]_vars

\* Sessions restored at startup that connect and then receive the network's
\* events while time passes.
NextActivity ==
  \/ RestoreBegin
  \/ RestoreOpen
  \/ \E h \in Handles : EvOpen(h)
  \/ \E x \in BagToSet(tasks) : OpenResume(x)
  \/ \E h \in Handles, n \in 1 .. MaxItems : EvHistorySet(h, n)
  \/ \E h \in Handles, kind \in InboundKinds : EvInbound(h, kind)
  \/ Tick

SpecActivity == Init /\ [][NextActivity]_vars

\* The owner restarts a session while its socket still has an open event
\* under way: the old socket's suspended handler and its close report against
\* the entry that restart registers under the same id.
NextReplaced ==
  \/ RestoreBegin
  \/ RestoreOpen
  \/ \E id \in Ids : RestartBegin("u1", id)
  \/ \E k \in Slots : RestartOpen(k)
  \/ \E k \in Slots : PollTimeout(k)
  \/ \E h \in Handles : EvOpen(h)
  \/ \E x \in BagToSet(tasks) : OpenResume(x)
  \/ \E x \in BagToSet(tasks) : ReconnectFire(x)
  \/ \E h \in Handles : EvCloseEnded(h)

SpecReplaced == Init /\ [][NextReplaced]_vars

\* Sessions created or restored, closed by the network for a permanent
\* cause, and restarted by a caller.
NextRearm ==
  \/ RestoreBegin
  \/ RestoreOpen
  \/ \E u \in Users, id \in Ids, m \in Methods, p \in Phones : CreateBegin(u, id, m, p)
  \/ \E k \in Slots : CreateOpen(k)
  \/ \E k \in Slots, ok \in BOOLEAN : CreatePair(k, ok)
  \/ \E u \in Users, id \in Ids : RestartRejected(u, id)
  \/ \E u \in Users, id \in Ids : RestartBegin(u, id)
  \/ \E k \in Slots : RestartOpen(k)
  \/ \E k \in Slots : PollSeen(k)
  \/ \E k \in Slots : PollTimeout(k)
  \/ \E h \in Handles : EvQr(h)
  \/ \E x \in BagToSet(tasks) : QrResume(x)
  \/ \E h \in Handles : EvClose(h, DisconnectReason.loggedOut)

SpecRearm == Init /\ [][NextRearm]_vars

\* Startup over each disk a previous run can leave: nothing, a directory
\* without creds.json (a create that never paired) or a directory with
\* creds.json, under one user; callers may already restart a connection while
\* restoreInstances is under way.
BootDisks ==
  {EmptyDisk} \cup {[EmptyDisk EXCEPT ![u][id] = d] : u \in Users, id \in Ids, d \in {"dir", "creds"}}

InitRestore ==
  /\ instances = [id \in Ids |-> NoInst]
  /\ data = [h \in Handles |-> FreeObj]
  /\ sock = [h \in Handles |-> NoSock]
  /\ tasks = EmptyBag
  /\ calls = [k \in Slots |-> IdleCall]
  /\ authDir \in BootDisks
  /\ restore = [pc |-> "boot", idx |-> 0]
  /\ minted = {id \in Ids : \E u \in Users : authDir[u][id] # "none"}
  /\ last = NoLabel
  /\ probe = NoProbe
  /\ ledger = NoLedger
  /\ now = 0

NextRestore ==
  \/ RestoreBegin
  \/ RestoreOpen
  \/ \E u \in Users, id \in Ids : RestartRejected(u, id)
  \/ \E u \in Users, id \in Ids : RestartBegin(u, id)
  \/ \E k \in Slots : RestartOpen(k)
  \/ \E k \in Slots : PollSeen(k)
  \/ \E k \in Slots : PollTimeout(k)
  \/ \E h \in Handles : EvQr(h)
  \/ \E x \in BagToSet(tasks) : QrResume(x)
  \/ \E h \in Handles : EvOpen(h)
  \/ \E x \in BagToSet(tasks) : OpenResume(x)

SpecRestore == InitRestore /\ [][NextRestore]_vars

\* Creates through the facade, by users whose balance is short of, equal to
\* or above the price of a connection.
InitCredit ==
  /\ instances = [id \in Ids |-> NoInst]
  /\ data = [h \in Handles |-> FreeObj]
  /\ sock = [h \in Handles |-> NoSock]
  /\ tasks = EmptyBag
  /\ calls = [k \in Slots |-> IdleCall]
  /\ authDir = EmptyDisk
  /\ restore = [pc |-> "boot", idx |-> 0]
  /\ minted = {}
  /\ last = NoLabel
  /\ probe = NoProbe
  /\ \E b \in [Users -> StartBalances] : ledger = [balance |-> b, tx |-> [t \in TxSlots |-> IdleTx]]
  /\ now = 0

NextCredit ==
  \/ RestoreBegin
  \/ \E u \in Users : FacadeCreateBegin(u)
  \/ \E t \in TxSlots : LedgerRead(t)
  \/ \E t \in TxSlots : LedgerWrite(t)
  \/ \E t \in TxSlots : LedgerError(t)
  \/ \E t \in TxSlots, id \in Ids, m \in Methods, p \in Phones : CreatePaid(t, id, m, p)
  \/ \E k \in Slots : CreateOpen(k)
  \/ \E k \in Slots, ok \in BOOLEAN : CreatePair(k, ok)
  \/ \E k \in Slots : PollSeen(k)
  \/ \E k \in Slots : PollTimeout(k)
  \/ \E h \in Handles : EvQr(h)
  \/ \E x \in BagToSet(tasks) : QrResume(x)

SpecCredit == InitCredit /\ [][NextCredit]_vars

\* The open event among the closes and the retries of a session, with each
\* outcome of the profile picture fetch.
NextOpen ==
  \/ RestoreBegin
  \/ RestoreOpen
  \/ \E u \in Users, id \in Ids, m \in Methods, p \in Phones : CreateBegin(u, id, m, p)
  \/ \E k \in Slots : CreateOpen(k)
  \/ \E k \in Slots, ok \in BOOLEAN : CreatePair(k, ok)
  \/ \E k \in Slots : PollTimeout(k)
  \/ \E h \in Handles, r \in Reasons : EvClose(h, r)
  \/ \E h \in Handles : EvOpen(h)
  \/ \E x \in BagToSet(tasks), fetched \in Fetches : OpenFetched(x, fetched)
  \/ \E x \in BagToSet(tasks) : ReconnectFire(x)
  \/ \E x \in BagToSet(tasks) : RestartFire(x)

SpecOpen == Init /\ [][NextOpen]_vars

\* The events of restored sessions and the timers their closes set.
NextPending ==
  \/ RestoreBegin
  \/ RestoreOpen
  \/ \E h \in Handles : EvQr(h)
  \/ \E x \in BagToSet(tasks) : QrResume(x)
  \/ \E h \in Handles : EvOpen(h)
  \/ \E x \in BagToSet(tasks) : OpenResume(x)
  \/ \E h \in Handles, r \in Reasons : EvClose(h, r)
  \/ \E x \in BagToSet(tasks) : ReconnectFire(x)
  \/ \E x \in BagToSet(tasks) : RestartFire(x)

SpecPending == Init /\ [][NextPending]_vars

\* ---------------------------------------------------------------- claims

\* C1: single live handle.  Every socket that was opened and whose end() has
\* not been invoked is the one the registry references under its connection
\* id: no un-closed handle is left outside the registry, whatever create,
\* restart, remove and restore calls overlap at their awaits.
C1_SingleLiveHandle ==
  \A h \in Handles : sock[h].st = "open" => Get(sock[h].id) = h

\* C2: at most one pending timer.  For every instance, at most one reconnect
\* timer set by the close handler is pending.
C2_AtMostOnePendingTimer ==
  \A h \in Handles :
    BagCardinality([x \in {y \in BagToSet(tasks) : y.kind = "reconnect" /\ y.inst = h}
                      |-> CopiesIn(x, tasks)]) <= 1

\* C3: owner isolation for remove.  A removeConnection step by a caller who
\* is not the owner of the registered instance leaves the registry entry in
\* place, the socket not ended, shouldBeConnected and the pending timers as
\* they were, and the owner's credential directory untouched.
C3_RemoveOwnerIsolation ==
  [][\A u \in Users, id \in Ids :
       (/\ Get(id) # NoInst
        /\ data[Get(id)].userId # u
        /\ RemoveConnection(u, id))
       => /\ instances'[id] = instances[id]
          /\ sock'[Get(id)].st = sock[Get(id)].st
          /\ data'[Get(id)].shouldBeConnected = data[Get(id)].shouldBeConnected
          /\ tasks' = tasks
          /\ authDir'[data[Get(id)].userId][id] = authDir[data[Get(id)].userId][id]]_vars

\* C4: owner isolation for read and outbound operations.  In every state
\* and for every caller other than the owner of a registered instance,
\* getConnection answers undefined and the guards of restartConnection,
\* sendMessage, sendFile and validateNumber throw, whatever the status; and
\* a step that is such a rejected or read-only call changes nothing of the
\* registry, the instances, the sockets, the timers or the directories.
C4_OwnerIsolation ==
  [][\A u \in Users, id \in Ids :
       (Get(id) # NoInst /\ data[Get(id)].userId # u) =>
         /\ GetResult(u, id) = "undefined"
         /\ RestartDenied(u, Get(id))
         /\ \A op \in OutboundOps : Denied(op, u, Get(id))
         /\ (/\ last' = NoLabel
             /\ (\/ GetConnection(u, id)
                 \/ RestartRejected(u, id)
                 \/ \E op \in OutboundOps : OutboundRejected(op, u, id)))
            => UNCHANGED <<instances, data, sock, tasks, calls, authDir>>]_vars

\* a registered instance is connected and some caller is not its owner
C4_Witness ==
  \E u \in Users, id \in Ids :
    /\ Get(id) # NoInst
    /\ data[Get(id)].status = "connected"
    /\ data[Get(id)].userId # u

\* C5: state consistency when connected.  A registered instance whose status
\* is connected holds no qr, no pairingCode, and a number.
C5_ConnectedConsistency ==
  \A id \in Ids :
    (Get(id) # NoInst /\ data[Get(id)].status = "connected") =>
      /\ ~data[Get(id)].qr
      /\ ~data[Get(id)].pairingCode
      /\ data[Get(id)].number

C7_PermanentShortCircuit ==
  [][(/\ last'.op = "close"
      /\ last'.arg \in permanentDisconnectReasons
      /\ last'.h # NoInst
      /\ \E h \in Handles : EvClose(h, last'.arg))
     => /\ data'[last'.h].status = "disconnected"
        /\ ~data'[last'.h].shouldBeConnected
        /\ tasks' = tasks]_vars

\* the latest step was a permanent close on an instance that had retried
\* before and had a reconnect timer pending
C7_Witness ==
  /\ last.op = "close"
  /\ last.arg \in permanentDisconnectReasons
  /\ last.h # NoInst
  /\ data[last.h].status = "disconnected"
  /\ ~data[last.h].shouldBeConnected
  /\ data[last.h].reconnectionAttempts > 0
  /\ \E x \in BagToSet(tasks) : x.kind = "reconnect" /\ x.inst = last.h

\* C8: restart-required resurrection.  When the timer set by a close with
\* the restart-required cause fires on an instance that is still registered,
\* disconnected and meant to be connected, the old socket is ended and a new
\* socket is registered under the same id with status connecting.
C8_RestartRequiredResurrection ==
  [][\A x \in BagToSet(tasks) :
       (/\ RestartFire(x)
        /\ Get(data[x.inst].instanceId) = x.inst
        /\ data[x.inst].shouldBeConnected
        /\ data[x.inst].status = "disconnected")
       => /\ instances'[data[x.inst].instanceId] # NoInst
          /\ instances'[data[x.inst].instanceId] # x.inst
          /\ sock'[x.inst].st = "ended"
          /\ data'[instances'[data[x.inst].instanceId]].status = "connecting"]_vars

\* C9: a transient close schedules a retry.  A close event with a cause that
\* is neither permanent nor restart-required, on a registered instance with
\* shouldBeConnected and reconnectionAttempts = 0, sets status disconnected,
\* leaves reconnectionAttempts at 0 and adds exactly one timer, the one
\* instance.reconnectTimeout references, with the base delay; and
\* reconnectionAttempts of an instance grows only by a step of its reconnect
\* timer firing, and then by exactly 1.
C9_TransientCloseSchedulesRetry ==
  [][/\ (/\ last'.op = "close"
          /\ last'.arg \notin permanentDisconnectReasons
          /\ ~IsRestartRequired(last'.arg)
          /\ last'.h # NoInst
          /\ \E h \in Handles : EvClose(h, last'.arg)
          /\ data[last'.h].shouldBeConnected
          /\ data[last'.h].reconnectionAttempts = 0)
         => /\ data'[last'.h].status = "disconnected"
            /\ data'[last'.h].reconnectionAttempts = 0
            /\ BagCardinality(tasks') = BagCardinality(tasks) + 1
            /\ CopiesIn(Task("reconnect", last'.h, last'.h, BaseDelay, TRUE), tasks') = 1
     /\ \A g \in Handles :
          data'[g].reconnectionAttempts > data[g].reconnectionAttempts =>
            /\ data'[g].reconnectionAttempts = data[g].reconnectionAttempts + 1
            /\ \E x \in BagToSet(tasks) : x.inst = g /\ ReconnectFire(x)]_vars

\* the latest step was a transient close on an instance meant to be
\* connected that had not retried: its timer with the base delay is pending
C9_Witness ==
  /\ last.op = "close"
  /\ last.arg = DisconnectReason.timedOut
  /\ last.h # NoInst
  /\ data[last.h].shouldBeConnected
  /\ data[last.h].reconnectionAttempts = 0
  /\ data[last.h].status = "disconnected"
  /\ BagIn(Task("reconnect", last.h, last.h, BaseDelay, TRUE), tasks)

\* C10: attempts exhausted.  A close event with a cause that is neither
\* permanent nor restart-required, on a registered instance whose
\* reconnectionAttempts has reached the maximum, sets shouldBeConnected
\* false and sets no timer.
C10_AttemptsExhausted ==
  [][(/\ last'.op = "close"
      /\ last'.arg \notin permanentDisconnectReasons
      /\ ~IsRestartRequired(last'.arg)
      /\ last'.h # NoInst
      /\ \E h \in Handles : EvClose(h, last'.arg)
      /\ data[last'.h].reconnectionAttempts >= MaxReconnectAttempts)
     => /\ ~data'[last'.h].shouldBeConnected
        /\ tasks' = tasks]_vars

\* C11: a scheduled retry re-establishes the connection.  With timers and
\* the sweep firing, a registered instance that is disconnected, meant to be
\* connected and below the maximum of attempts eventually is no longer
\* disconnected or is no longer the registered instance of its id.
C11_RetryReestablishes ==
  \A h \in Handles :
    (/\ sock[h].st = "open"
     /\ Get(sock[h].id) = h
     /\ data[h].status = "disconnected"
     /\ data[h].shouldBeConnected
     /\ data[h].reconnectionAttempts < MaxReconnectAttempts)
    ~> (\/ sock[h].st # "open"
        \/ Get(sock[h].id) # h
        \/ data[h].status # "disconnected")

\* C12: removal is terminal.  A step that follows a completed
\* removeConnection(u, id) and is no new create or restart call leaves the
\* registry without an instance of u under id and the credential directory
\* of (u, id) absent: nothing that was suspended when the removal ran brings
\* the session back.
C12_RemovalTerminal ==
  [][(/\ last.op \in {"remove", "remove_return"}
      /\ last.res = "ok"
      /\ last'.op \notin {"create", "restart"})
     => /\ IF instances'[last.id] = NoInst THEN TRUE
           ELSE data'[instances'[last.id]].userId # last.user
        /\ authDir'[last.user][last.id] = "none"]_vars

\* C13: remove postcondition.  A removeConnection by the owner of the
\* registered instance, once its cleanup has run, leaves the instance's
\* socket ended, no timer of the instance pending, the credential directory
\* of (owner, id) absent and the registry without an entry for the id, so
\* that getConnection answers undefined.
C13_RemovePostcondition ==
  [][(/\ last'.op \in {"remove", "remove_return"}
      /\ last'.res = "ok"
      /\ last'.h # NoInst
      /\ data[last'.h].userId = last'.user)
     => /\ instances'[last'.id] = NoInst
        /\ sock'[last'.h].st = "ended"
        /\ authDir'[last'.user][last'.id] = "none"
        /\ \A x \in BagToSet(tasks') :
             ~(x.kind \in {"reconnect", "restart"} /\ x.inst = last'.h)]_vars

\* C14: restart is refused unless the session exists and is the caller's.
\* Every step in which restartConnection passes its caller check and goes on
\* to open a socket was taken with the registry holding an instance under
\* the id whose userId is the caller.
C14_RestartNotFound ==
  [][last'.op = "restart"
     => /\ last'.h # NoInst
        /\ data[last'.h].userId = last'.user]_vars

\* C15: ownerId is immutable.  No step replaces the registry entry of a
\* connection id by an entry with another userId: when the registry holds an
\* instance under the id before and after a step, both have the same owner.
C15_OwnerImmutable ==
  [][\A id \in Ids :
       (instances[id] # NoInst /\ instances'[id] # NoInst)
       => data'[instances'[id]].userId = data[instances[id]].userId]_vars

C17_DirectoryLifetime ==
  [][(/\ last'.op = "close"
      /\ last'.h # NoInst
      /\ last'.arg \notin permanentDisconnectReasons
      /\ data[last'.h].status # "disconnected"
      /\ data[last'.h].reconnectionAttempts < MaxReconnectAttempts
      /\ \A k \in Slots : calls[k].op # "remove")
     => last'.id \notin Swept']_vars

\* C18: sending on a session that is not connected.  While a registered
\* instance has a status other than connected, the guards of sendMessage and
\* sendFile throw for every caller; no step starts a send on it (no identity
\* probe, presence update or message send is issued on its socket), and the
\* rejected call changes nothing.
C18_SendNotConnected ==
  [][\A u \in Users, id \in Ids :
       (Get(id) # NoInst /\ data[Get(id)].status # "connected") =>
         /\ SendMessageDenied(u, Get(id))
         /\ SendFileDenied(u, Get(id))
         /\ last'.op \in {"sendMessage", "sendFile"} => last'.id # id
         /\ (/\ last' = NoLabel
             /\ (\/ OutboundRejected("sendMessage", u, id)
                 \/ OutboundRejected("sendFile", u, id)))
            => UNCHANGED <<instances, data, sock, tasks, calls, authDir>>]_vars

\* a registered instance is disconnected, its owner's sends are refused, and
\* no outbound call is in flight
C18_Witness ==
  \E id \in Ids :
    /\ Get(id) # NoInst
    /\ data[Get(id)].status = "disconnected"
    /\ SendMessageDenied(data[Get(id)].userId, Get(id))
    /\ SendFileDenied(data[Get(id)].userId, Get(id))
    /\ \A k \in Slots : calls[k].op \notin OutboundOps

\* C19: outbound re-validation.  sendMessage and sendFile never invoke
\* socket.sendMessage while the instance the call holds is disconnected: a
\* close processed during identity resolution or the presence delays makes
\* the call end without the network send.
C19_SendRevalidated ==
  last.op = "net_send" => last.res # "disconnected"

\* C20: Brazilian-number variant probing.  When validateNumber has returned
\* for the 13-digit and for the 12-digit way of writing one number, on the
\* same connected session and against the same network: if the network knows
\* at least one of the two variants, both calls returned exists = true with
\* the same jid; if it knows neither, both returned exists = false.
C20_VariantProbing ==
  (probe.call # <<>> /\ \A c \in ProbeCalls : probe.call[c].pc = "done")
  => IF \E j \in DOMAIN probe.net : probe.net[j].exists
     THEN /\ probe.call[1].exists
          /\ probe.call[2].exists
          /\ probe.call[1].jid = probe.call[2].jid
     ELSE ~probe.call[1].exists /\ ~probe.call[2].exists

\* C21: phone number validation of create.  A createConnection call with
\* pairingMethod code throws exactly when the phone number is missing or is
\* not a string of 10 to 15 characters that are all digits; a call with
\* pairingMethod qr never throws for its phone number.
C21_PhoneValidation ==
  [][\A m \in Methods, n \in PhoneInputs :
       (/\ last'.op = "create"
        /\ CreateWritten(last'.user, last'.id, m, n))
       => (last'.res = "error"
             <=> (/\ m = "code"
                  /\ \/ n = <<>>
                     \/ Len(n) < 10
                     \/ Len(n) > 15
                     \/ \E i \in 1 .. Len(n) : n[i] \notin Digits))]_vars

\* C22: bounded bootstrap.  A create or restart call that has opened its
\* socket and waits for the QR payload or the pairing code returns to its
\* caller, whatever the network does.
C22_BoundedBootstrap ==
  \A k \in Slots :
    (calls[k].op \in {"create", "restart"} /\ calls[k].pc \in {"pair", "poll"})
    ~> (calls[k].op = "idle")

\* C23: history sync feeds the read APIs.  Right after a history snapshot
\* with n contacts, n chats and n messages was processed for a registered,
\* connected session, getContacts, getChats and getMessages of its owner
\* return n items each.
C23_HistoryFeedsReads ==
  (/\ last.op = "history"
   /\ last.h # NoInst
   /\ data[last.h].status = "connected")
  => /\ GetContacts(data[last.h].userId, last.h) # "error"
     /\ Len(GetContacts(data[last.h].userId, last.h)) = last.arg
     /\ Len(GetChats(data[last.h].userId, last.h)) = last.arg
     /\ Len(GetMessages(data[last.h].userId, last.h, 50)) = last.arg

\* C24: what restoreInstances leaves behind.  Its first pass deletes every
\* directory without creds.json and registers nothing; at the step that
\* completes it, every directory holding creds.json has the registry entry
\* of its connection id, owned by the directory's user, with status
\* connecting, pairingMethod qr, shouldBeConnected true and
\* reconnectionAttempts 0.
C24_RestorePostcondition ==
  [][/\ (restore.pc = "boot" /\ restore'.pc # "boot")
        => \A u \in Users, id \in Ids :
             authDir[u][id] = "dir" => (authDir'[u][id] = "none" /\ instances'[id] = NoInst)
     /\ (restore.pc # "done" /\ restore'.pc = "done")
        => \A u \in Users, id \in Ids :
             authDir'[u][id] = "creds"
             => /\ instances'[id] # NoInst
                /\ data'[instances'[id]].userId = u
                /\ data'[instances'[id]].status = "connecting"
                /\ data'[instances'[id]].pairingMethod = "qr"
                /\ data'[instances'[id]].shouldBeConnected
                /\ data'[instances'[id]].reconnectionAttempts = 0]_vars

\* C25: debit before provisioning, refund on failure.  Through the facade,
\* ConnectionManager.createConnection is entered only by a call whose debit
\* was written, and a written debit lowers the caller's balance by 2 without
\* making it negative; a call rejected for insufficient balance changes
\* neither the balance nor the registry, the sockets, the suspended calls or
\* the credential directories; a provisioning that throws starts the refund,
\* and the refund ends by raising the caller's balance by 2.
C25_DebitThenRefund ==
  [][/\ last'.op = "create"
        => \E t \in TxSlots : ledger.tx[t].pc = "paid" /\ ledger.tx[t].user = last'.user
     /\ (last'.op = "debit" /\ last'.res = "ok")
        => /\ ledger'.balance[last'.user] = ledger.balance[last'.user] - ConnectionPrice
           /\ ledger'.balance[last'.user] >= 0
     /\ (last'.op = "debit" /\ last'.res = "insufficient")
        => /\ ledger'.balance = ledger.balance
           /\ UNCHANGED <<instances, sock, calls, authDir>>
     /\ (last'.op = "create" /\ last'.res = "error")
        => \E t \in TxSlots : ledger'.tx[t].op = "refund" /\ ledger'.tx[t].user = last'.user
     /\ last'.op = "refund"
        => /\ last'.res = "ok"
           /\ ledger'.balance[last'.user] = ledger.balance[last'.user] + ConnectionPrice]_vars

\* C26: the guard of the reconnect timer.  When a reconnect timer fires for
\* an instance whose shouldBeConnected is false, or that is no longer the
\* registry's entry of its id, or whose status is no longer disconnected,
\* its callback changes no field of any instance.
C26_TimerGuard ==
  [][\A x \in BagToSet(tasks) :
       (/\ last'.op = "none"
        /\ x.kind = "reconnect"
        /\ ReconnectFire(x)
        /\ \/ ~data[x.inst].shouldBeConnected
           \/ Get(data[x.inst].instanceId) # x.inst
           \/ data[x.inst].status # "disconnected")
       => ReconnectData(data, x.inst) = data]_vars

C28_TimerOnlyWhileDisconnected ==
  \A x \in BagToSet(tasks) :
    x.kind = "reconnect"
    => /\ Get(data[x.inst].instanceId) = x.inst
       /\ data[x.inst].status = "disconnected"

C30_EventOrdering ==
  [][\A x \in BagToSet(tasks) :
       (/\ last.op = "close"
        /\ last.h # NoInst
        /\ x.inst = last.h
        /\ x.kind \in {"qr", "open"}
        /\ IF x.kind = "qr" THEN QrResume(x) ELSE OpenResume(x))
       => /\ data'[last.h].status = "disconnected"
          /\ RefTimers(tasks', last.h) = RefTimers(tasks, last.h)]_vars

\* C31: probe order of validateNumber.  While a validateNumber call waits
\* for onWhatsApp, the number it is asking about is: for a Brazilian number
\* (digits starting with 55) of 13 or 12 digits, the 13-digit variant at the
\* first probe and the 12-digit variant at the second, and there is no third
\* probe; for every other number, the number as given, at the only probe.
C31_ProbeOrder ==
  \A c \in DOMAIN probe.call :
    LET k == probe.call[c]
        cleanNumber == CleanNumber(k.number)
        asked == GetBrazilianNumberVariations(k.number)[k.idx]
    IN k.pc = "probe" =>
         IF /\ ~IncludesAt(k.number)
            /\ Len(cleanNumber) \in {12, 13}
            /\ SubSeq(cleanNumber, 1, 2) = <<"5", "5">>
         THEN /\ k.idx \in {1, 2}
              /\ k.idx = 1 => Len(asked) = 13
              /\ k.idx = 2 => Len(asked) = 12
         ELSE k.idx = 1 /\ asked = k.number

\* C32: pairing-code fallback.  Whenever requestPairingCode throws for a
\* session whose pairingMethod is code (in the delayed request of the event
\* handler or in the request createConnection makes itself), the session is
\* left with status qr_pending and pairingMethod qr, the state in which the
\* qr branch of the event handler accepts a QR payload.
C32_PairingFallback ==
  [][\A h \in Handles :
       (/\ data[h].pairingMethod = "code"
        /\ \/ \E x \in BagToSet(tasks) : x.inst = h /\ PairingFire(x, FALSE)
           \/ \E k \in Slots : calls[k].inst = h /\ CreatePair(k, FALSE))
       => /\ data'[h].status = "qr_pending"
          /\ data'[h].pairingMethod = "qr"]_vars

\* C33: lastActivity is updated on every inbound event.  After the listener
\* of any subscribed event (history sync; message upsert, update, delete,
\* reaction, receipt; chat upsert, update, delete; contact upsert, update;
\* group upsert, update, participants; blocklist set, update; call) has run
\* for a session that is in the registry, the session's lastActivity is not
\* older than the time the event was handled.
C33_ActivityOnEveryEvent ==
  [][(/\ last'.op \in {"inbound", "history"}
      /\ last'.h # NoInst)
     => data'[last'.h].lastActivity >= now']_vars

\* C34: while connected the attempt counter is zero.  In every reachable
\* state an InstanceData with status connected has reconnectionAttempts 0:
\* no timer set before the open event was handled (a reconnect timer whose
\* reference a later close overwrote included) increments the counter of a
\* connected session.
C34_ConnectedCounterZero ==
  \A h \in Handles : data[h].status = "connected" => data[h].reconnectionAttempts = 0

\* C35: events of a replaced handle are inert.  Once restartConnection has
\* registered a new InstanceData under a session id, a step taken for the
\* old socket (the close report of the socket restart ended, the resumed
\* handler of one of its earlier events, or one of its timers) changes
\* neither the status, shouldBeConnected or reconnectionAttempts of the entry
\* now registered under the id nor the timer that entry references.
C35_ReplacedHandleInert ==
  [][\A id \in Ids :
       LET cur == instances[id] IN
       (/\ cur # NoInst
        /\ instances'[id] = cur
        /\ \/ last'.op = "close_ended" /\ last'.arg # cur
           \/ \E x \in BagToSet(tasks) :
                /\ x.inst # cur
                /\ tasks' = tasks (-) SetToBag({x}))
       => /\ data'[cur].status = data[cur].status
          /\ data'[cur].shouldBeConnected = data[cur].shouldBeConnected
          /\ data'[cur].reconnectionAttempts = data[cur].reconnectionAttempts
          /\ RefTimers(tasks', cur) = RefTimers(tasks, cur)]_vars

\* C36: connected is left only by close, remove or restart.  A step that
\* takes an InstanceData out of status connected handles a close event or
\* belongs to removeConnection, restartConnection or the sweep of
\* disconnected instances; a resumed qr handler, a pairing timer and the
\* pairing request of createConnection leave a connected session connected.
C36_ConnectedLeftOnlyByClose ==
  [][\A h \in Handles :
       (data[h].status = "connected" /\ data'[h].status # "connected")
       => last'.op \in {"close", "remove", "restart", "sweep"}]_vars

\* C37: one pairing code per bootstrap.  The pairing request of
\* createConnection and the delayed pairing request of the event handler are
\* never both under way for one InstanceData, and a pairing request that
\* answers never stores its code over a pairingCode the InstanceData already
\* holds.
C37_OnePairingCode ==
  [][/\ \A k \in Slots, x \in BagToSet(tasks) :
          ~(/\ calls[k].op = "create" /\ calls[k].pc = "pair"
            /\ x.kind = "pairing" /\ x.inst = calls[k].inst)
     /\ \A h \in Handles :
          (\/ \E x \in BagToSet(tasks) : x.inst = h /\ PairingFire(x, TRUE)
           \/ \E k \in Slots : calls[k].inst = h /\ CreatePair(k, TRUE))
          => ~data[h].pairingCode]_vars

\* C38: a failed create leaves nothing behind.  When createConnection throws
\* (the phone number is missing or invalid, or the provisioning fails), the
\* registry has no entry under the id the call allocated, no socket opened
\* for that id is still open, and the auth directory of (user, id) does not
\* exist.
C38_FailedCreateLeavesNothing ==
  [][(last'.op = "create" /\ last'.res = "error")
     => /\ instances'[last'.id] = NoInst
        /\ \A h \in Handles : sock'[h].id = last'.id => sock'[h].st # "open"
        /\ authDir'[last'.user][last'.id] = "none"]_vars

\* C39: shouldBeConnected = false is sticky under network events.  Once an
\* InstanceData has shouldBeConnected = false (set by a permanent close cause
\* or by a timer that found the attempts exhausted), no event of the network
\* (a close with the restartRequired cause included) and no timer sets it
\* back to true on that InstanceData.
C39_StickyFalse ==
  [][\A h \in Handles :
       (/\ data[h].status # "free"
        /\ ~data[h].shouldBeConnected
        /\ data'[h].status # "free")
       => ~data'[h].shouldBeConnected]_vars

\* C40: restart re-arms the session.  restartConnection saves the
\* pairingMethod and phoneNumber of the InstanceData it replaces, and when it
\* returns, the InstanceData it registered, if still the registry's entry of
\* the session and not closed by the network in the meantime, has
\* shouldBeConnected = true, reconnectionAttempts = 0 and the saved
\* pairingMethod and phoneNumber, whatever shouldBeConnected was before the
\* restart.
C40_RestartRearms ==
  [][\A k \in Slots :
       /\ (/\ last'.op = "restart"
           /\ last'.h # NoInst
           /\ calls[k].op = "idle"
           /\ calls'[k].op = "restart")
          => /\ calls'[k].pairingMethod = data[last'.h].pairingMethod
             /\ calls'[k].phoneNumber = data[last'.h].phoneNumber
       /\ (/\ last'.op = "restart_return"
           /\ calls[k].op = "restart"
           /\ calls'[k].op = "idle"
           /\ instances'[last'.id] = last'.h
           /\ data'[last'.h].status # "disconnected")
          => /\ data'[last'.h].shouldBeConnected
             /\ data'[last'.h].reconnectionAttempts = 0
             /\ data'[last'.h].pairingMethod = calls[k].pairingMethod
             /\ data'[last'.h].phoneNumber = calls[k].phoneNumber]_vars

====
